---- MODULE Spec2Model ----
(***************************************************************************)
(* Model of the Insteon PowerLine Modem driver (package plm, plm.go):      *)
(* the background read loop, the token dispatcher, Acquire and the command *)
(* methods, Start/Stop/Close, together with the modem on the other side of *)
(* the transport.  Frames are modelled whole (one frame = one unit on the  *)
(* wire); goroutines are interleaved statement by statement wherever they  *)
(* synchronise.                                                            *)
(***************************************************************************)
EXTENDS Integers, Sequences, FiniteSets, TLC

(* ---------------------------------------------------------------------- *)
(* Bounds                                                                  *)
(* ---------------------------------------------------------------------- *)
NumCallers == 2
MaxUnsolicited == 1
MaxRecords == 2
MaxSlaves == 2

Callers == 1..NumCallers


None == 0

\* HTTP status codes; NoStatus while no header is written.
StatusOK == 200
StatusBadRequest == 400
StatusNotFound == 404
StatusInternalServerError == 500
NoStatus == 0

(* ---------------------------------------------------------------------- *)
(* Command methods, requests and response frames                           *)
(* ---------------------------------------------------------------------- *)
StandardCommands == {"SetLightState", "Beep"}

SetDeviceCommands == {"SetDeviceRampRate", "SetDeviceOnLevel",
                      "SetDeviceLEDBrightness", "SetDeviceX10Address"}

Commands == {"GetInfo", "GetDeviceInfo", "GetAllLinkRecords", "GetDeviceStatus"}
            \cup StandardCommands \cup SetDeviceCommands

\* The request a command writes first.
FirstRequest(k) ==
    CASE k = "GetInfo" -> "GetIMInfoRequest"
      [] k = "GetAllLinkRecords" -> "GetFirstAllLinkRecordRequest"
      [] k \in StandardCommands \cup {"GetDeviceStatus"} -> "SendStandardMessageRequest"
      [] OTHER -> "SendExtendedMessageRequest"

Expected_swapped(k, label) ==
    CASE label = "rStd" -> "ExtendedMessageReceived"
      [] label = "rExt" -> "StandardMessageReceived"
      [] label = "rRec" -> "AllLinkRecord"
      [] label = "rNext" -> "GetNextAllLinkRecordResponse"
      [] label = "r1" /\ k = "GetInfo" -> "GetIMInfoResponse"
      [] label = "r1" /\ k = "GetAllLinkRecords" -> "GetFirstAllLinkRecordResponse"
      [] OTHER -> "SendMsgResponse"

\* The response type a command passes to UnmarshalResponse at each read.
Expected(k, label) ==
    CASE label = "rStd" -> "StandardMessageReceived"
      [] label = "rExt" -> "ExtendedMessageReceived"
      [] label = "rRec" -> "AllLinkRecord"
      [] label = "rNext" -> "GetNextAllLinkRecordResponse"
      [] label = "r1" /\ k = "GetInfo" -> "GetIMInfoResponse"
      [] label = "r1" /\ k = "GetAllLinkRecords" -> "GetFirstAllLinkRecordResponse"
      [] OTHER -> "SendMsgResponse"

ReadLabels == {"r1", "rStd", "rExt", "rRec", "rNext"}
WriteLabels == {"w1", "wNext"}

\* Positions of a command between a successful Acquire and the deferred Close.
HoldLabels == ReadLabels \cup WriteLabels \cup {"close"}

\* A frame: its type, its trailing ack byte, the caller whose request it answers
\* (None if unsolicited), its position in the modem's output, and whether a
\* token was active when the read loop read it.
\* The (group, identity) of an all-link record; NoKey on every other frame.
NoKey == <<0, 0>>
RecordKeys == {<<1, 2>>, <<2, 1>>}

Frame(kind, st, to, n) ==
    [k |-> kind, st |-> st, to |-> to, n |-> n, win |-> FALSE, rec |-> NoKey]

NoFrame == Frame("none", "ack", None, 0)

VARIABLES
    started,      \* Start has run
    monitor,      \* m.monitor != nil
    stopClosed,   \* close(m.stop) has run
    tokensClosed, \* close(m.tokens) has run
    pipeClosed,   \* m.pipe.Close() has run
    devClosed,    \* m.closer.Close() has run
    spc,          \* position of the goroutine running Stop/Close
    aborted,      \* "no", or the goroutine whose panic ended the process
    pc,           \* position of each caller
    cmd,          \* the command method each caller runs
    ctxDone,      \* ctx.Done() of each caller is closed
    result,       \* what the command returned
    acquired,     \* Acquire returned the token to the caller
    sendq,        \* goroutines blocked in m.tokens <- token, in arrival order
    ready,        \* token.ready is closed
    closed,       \* the token's pipe is closed
    closes,       \* number of deferred device.Close() calls each command made
    dpc, dtok,    \* dispatchLoop position and its current token
    gate,         \* the writer connected to the ConnectedPipe (None if none)
    wire,         \* frames sent by the modem and not yet read
    broken,       \* the transport returns an error once drained
    nsent, nunsol,\* frames sent so far / unsolicited frames sent so far
    nrec,         \* all-link records sent to each caller
    rpc, cur,     \* readLoop position and the frame it holds
    readLog,      \* frames the read loop has read, in order
    monitorLog,   \* frames passed to monitor.ResponseReceived, in order
    recv,         \* frames each command's reads returned, in order
    written,      \* requests each command wrote, in order
    enqOrder,     \* callers in the order their token entered the queue
    readyOrder,   \* callers in the order their token was signalled ready
    lost,         \* replies read while their caller held its token, yet not routed to it
    expired,      \* callers whose context was done while another held the token
    hpc,          \* position of the HTTP handler serving the current request
    hreq,         \* the current HTTP request
    status,       \* status of the response (NoStatus until the header is written)
    hctype,       \* Content-Type of the response
    calls         \* calls the handler made into the PowerLineModem, in order

lifecycle == <<started, monitor, stopClosed, tokensClosed, pipeClosed, devClosed, spc>>
callerVars == <<pc, cmd, ctxDone, result, acquired, closes, recv, written, expired>>
tokenVars == <<sendq, ready, closed, enqOrder, readyOrder>>
dispVars == <<dpc, dtok, gate>>
modemVars == <<wire, broken, nsent, nunsol, nrec>>
readVars == <<rpc, cur, readLog, monitorLog, lost>>

webVars == <<hpc, hreq, status, hctype, calls>>
plmVars == <<lifecycle, aborted, callerVars, tokenVars, dispVars, modemVars, readVars>>

vars == <<plmVars, webVars>>

\* The tokens that are active: signalled ready and not yet closed.
Active == {c \in Callers : ready[c] /\ ~closed[c]}

Running == aborted = "no"

(* ---------------------------------------------------------------------- *)
(* New: the state after construction                                       *)
(* ---------------------------------------------------------------------- *)
Init ==
    /\ started = FALSE
    /\ monitor = FALSE
    /\ stopClosed = FALSE
    /\ tokensClosed = FALSE
    /\ pipeClosed = FALSE
    /\ devClosed = FALSE
    /\ spc = "new"
    /\ aborted = "no"
    /\ pc = [c \in Callers |-> "idle"]
    /\ cmd = [c \in Callers |-> "GetInfo"]
    /\ ctxDone = [c \in Callers |-> FALSE]
    /\ result = [c \in Callers |-> "none"]
    /\ acquired = [c \in Callers |-> FALSE]
    /\ sendq = <<>>
    /\ ready = [c \in Callers |-> FALSE]
    /\ closed = [c \in Callers |-> FALSE]
    /\ closes = [c \in Callers |-> 0]
    /\ dpc = "off"
    /\ dtok = None
    /\ gate = None
    /\ wire = <<>>
    /\ broken = FALSE
    /\ nsent = 0
    /\ nunsol = 0
    /\ nrec = [c \in Callers |-> 0]
    /\ rpc = "off"
    /\ cur = NoFrame
    /\ readLog = <<>>
    /\ monitorLog = <<>>
    /\ recv = [c \in Callers |-> <<>>]
    /\ written = [c \in Callers |-> <<>>]
    /\ enqOrder = <<>>
    /\ readyOrder = <<>>
    /\ lost = {}
    /\ expired = [c \in Callers |-> FALSE]
    /\ hpc = "idle"
    /\ hreq = [h |-> "none", ident |-> "", body |-> "nil", ctype |-> "", slaves |-> 0]
    /\ status = NoStatus
    /\ hctype = ""
    /\ calls = <<>>

(* ---------------------------------------------------------------------- *)
(* Start, Stop, Close                                                      *)
(* ---------------------------------------------------------------------- *)
\* Start(monitor): creates the stop channel, the token queue and the
\* connected pipe, and launches readLoop and dispatchLoop.
Start(mon) ==
    /\ Running
    /\ spc = "new"
    /\ started' = TRUE
    /\ monitor' = mon
    /\ rpc' = "read"
    /\ dpc' = "range"
    /\ spc' = "running"
    /\ UNCHANGED <<webVars, stopClosed, tokensClosed, pipeClosed, devClosed, aborted,
                   callerVars, tokenVars, dtok, gate, modemVars,
                   cur, readLog, monitorLog, lost>>

\* Stop, statement by statement: close(m.stop); m.stop = nil
StopCloseStop ==
    /\ Running
    /\ spc = "running"
    /\ stopClosed' = TRUE
    /\ spc' = "stop1"
    /\ UNCHANGED <<webVars, started, monitor, tokensClosed, pipeClosed, devClosed,
                   aborted, callerVars, tokenVars, dispVars, modemVars, readVars>>

\* close(m.tokens); m.tokens = nil
StopCloseTokens ==
    /\ Running
    /\ spc = "stop1"
    /\ tokensClosed' = TRUE
    /\ spc' = "stop2"
    /\ UNCHANGED <<webVars, started, monitor, stopClosed, pipeClosed, devClosed,
                   aborted, callerVars, tokenVars, dispVars, modemVars, readVars>>

\* m.pipe.Close()
StopClosePipe ==
    /\ Running
    /\ spc = "stop2"
    /\ pipeClosed' = TRUE
    /\ spc' = "stopped"
    /\ UNCHANGED <<webVars, started, monitor, stopClosed, tokensClosed, devClosed,
                   aborted, callerVars, tokenVars, dispVars, modemVars, readVars>>

\* Close: m.Stop() followed by m.closer.Close()
CloseTransport ==
    /\ Running
    /\ spc = "stopped"
    /\ devClosed' = TRUE
    /\ broken' = TRUE
    /\ spc' = "closed"
    /\ UNCHANGED <<webVars, started, monitor, stopClosed, tokensClosed, pipeClosed,
                   aborted, callerVars, tokenVars, dispVars,
                   wire, nsent, nunsol, nrec, readVars>>

(* ---------------------------------------------------------------------- *)
(* The modem on the other side of the transport                            *)
(* ---------------------------------------------------------------------- *)
MsgReceivedKinds == {"StandardMessageReceived", "ExtendedMessageReceived"}

\* The response code that answers a request.
ResponseOf(req) ==
    CASE req = "GetIMInfoRequest" -> "GetIMInfoResponse"
      [] req = "GetFirstAllLinkRecordRequest" -> "GetFirstAllLinkRecordResponse"
      [] req = "GetNextAllLinkRecordRequest" -> "GetNextAllLinkRecordResponse"
      [] OTHER -> "SendMsgResponse"

\* What the modem may do with a request of command k written by caller c.
ModemOutcomes(c, k, req) ==
    {"nak", "silent", "bad"}
    \cup (IF req \in {"GetFirstAllLinkRecordRequest", "GetNextAllLinkRecordRequest"}
             /\ nrec[c] >= MaxRecords
          THEN {} ELSE {"ack"})
    \cup (IF k = "GetDeviceInfo" THEN {"ackNoStd"} ELSE {})

\* The kinds of the frames that follow an acknowledged request.
FollowUps(k, req, o) ==
    CASE req \in {"GetFirstAllLinkRecordRequest", "GetNextAllLinkRecordRequest"} ->
            <<"AllLinkRecord">>
      [] k = "GetDeviceStatus" -> <<"StandardMessageReceived">>
      [] k = "GetDeviceInfo" /\ o = "ack" ->
            <<"StandardMessageReceived", "ExtendedMessageReceived">>
      [] k = "GetDeviceInfo" /\ o = "ackNoStd" -> <<"ExtendedMessageReceived">>
      [] OTHER -> <<>>

\* The record keys the modem may put in the reply to a request.
ModemKeys(req, o) ==
    IF o = "ack" /\ req \in {"GetFirstAllLinkRecordRequest", "GetNextAllLinkRecordRequest"}
    THEN RecordKeys ELSE {NoKey}

\* The frames the modem puts on the wire in reply to a request.
ModemReply(c, k, req, o, key) ==
    IF o = "silent" THEN <<>>
    ELSE IF o \in {"nak", "bad"} THEN <<Frame(ResponseOf(req), o, c, nsent + 1)>>
    ELSE LET fu == FollowUps(k, req, o)
         IN  <<Frame(ResponseOf(req), "ack", c, nsent + 1)>>
             \o [i \in 1..Len(fu) |->
                    [Frame(fu[i], "ack", c, nsent + 1 + i) EXCEPT !.rec = key]]

InsertAt(q, i, f) == SubSeq(q, 1, i) \o <<f>> \o SubSeq(q, i + 1, Len(q))

\* A device sends a message nobody asked for.  It may come at any point of
\* the stream the host has not read yet: after i of the waiting frames.
ModemUnsolicited(kind, st, i) ==
    /\ Running
    /\ started
    /\ ~devClosed
    /\ nunsol < MaxUnsolicited
    /\ wire' = InsertAt(wire, i, Frame(kind, st, None, nsent + 1))
    /\ nsent' = nsent + 1
    /\ nunsol' = nunsol + 1
    /\ UNCHANGED <<webVars, lifecycle, aborted, callerVars, tokenVars, dispVars,
                   broken, nrec, readVars>>

\* The transport starts returning read errors (link lost, EOF).
TransportFail ==
    /\ Running
    /\ started
    /\ ~broken
    /\ broken' = TRUE
    /\ UNCHANGED <<webVars, lifecycle, aborted, callerVars, tokenVars, dispVars,
                   wire, nsent, nunsol, nrec, readVars>>

(* ---------------------------------------------------------------------- *)
(* panicStop                                                               *)
(* ---------------------------------------------------------------------- *)
panicStop_swallow(who) == "no"

\* The new value of aborted: the panic is swallowed iff stop is closed.
panicStop(who) == IF stopClosed THEN "no" ELSE who

(* ---------------------------------------------------------------------- *)
(* dispatchLoop                                                            *)
(* ---------------------------------------------------------------------- *)
CanReceive_async == dpc \in {"range", "connected"}

\* dispatchLoop takes a token only at the head of its loop, i.e. after
\* Connect has returned for the previous one.
CanReceive == dpc = "range"

NextSender_lifo(q) == q[Len(q)]

\* A receive on the unbuffered channel completes the send of the goroutine
\* that has been blocked longest.
NextSender(q) == Head(q)

RemoveSender(q, c) == SelectSeq(q, LAMBDA x : x # c)

\* for token := range tokens
DispatchReceive ==
    /\ Running
    /\ CanReceive
    /\ ~tokensClosed
    /\ sendq # <<>>
    /\ LET c == NextSender(sendq)
       IN  /\ dtok' = c
           /\ sendq' = RemoveSender(sendq, c)
           /\ pc' = [pc EXCEPT ![c] = "select"]
    /\ dpc' = "ready"
    /\ UNCHANGED <<webVars, lifecycle, aborted, cmd, ctxDone, result, acquired, closes, recv,
                   written, expired, ready, closed, enqOrder, readyOrder, gate,
                   modemVars, readVars>>

\* the range loop ends when the channel is closed
DispatchExit ==
    /\ Running
    /\ dpc = "range"
    /\ tokensClosed
    /\ dpc' = "exited"
    /\ UNCHANGED <<webVars, lifecycle, aborted, callerVars, tokenVars, dtok, gate,
                   modemVars, readVars>>

\* close(token.ready)
DispatchReady ==
    /\ Running
    /\ dpc = "ready"
    /\ ready' = [ready EXCEPT ![dtok] = TRUE]
    /\ readyOrder' = Append(readyOrder, dtok)
    /\ dpc' = "connect"
    /\ UNCHANGED <<webVars, lifecycle, aborted, callerVars, sendq, closed, enqOrder, dtok, gate,
                   modemVars, readVars>>

\* c.Connect(token.pipeWriter) takes effect: the gate now writes to the token.
\* On a closed ConnectedPipe it returns io.ErrClosedPipe at once.
DispatchConnect ==
    /\ Running
    /\ dpc = "connect"
    /\ IF pipeClosed
       THEN /\ dpc' = "range"
            /\ gate' = gate
       ELSE /\ dpc' = "connected"
            /\ gate' = dtok
    /\ UNCHANGED <<webVars, lifecycle, aborted, callerVars, tokenVars, dtok, modemVars, readVars>>

\* ConnectedPipe.Connect(w) keeps w connected until w or the ConnectedPipe
\* itself is closed, and then returns io.ErrClosedPipe.
ConnectReturns(t) == IF closed[t] THEN TRUE ELSE pipeClosed

\* The error Connect returns.
ConnectError == "io.ErrClosedPipe"

\* if err != io.ErrClosedPipe { panicStop(stop, err) }
AfterConnect(err) == IF err # "io.ErrClosedPipe" THEN panicStop("dispatchLoop") ELSE "no"

\* Connect returns io.ErrClosedPipe; that error is expected, so panicStop is
\* not called and the loop takes the next token.
DispatchConnectReturn ==
    /\ Running
    /\ dpc = "connected"
    /\ ConnectReturns(dtok)
    /\ gate' = IF gate = dtok THEN None ELSE gate
    /\ aborted' = AfterConnect(ConnectError)
    /\ dpc' = IF aborted' = "no" THEN "range" ELSE "panic"
    /\ UNCHANGED <<webVars, lifecycle, callerVars, tokenVars, dtok, modemVars, readVars>>

(* ---------------------------------------------------------------------- *)
(* createToken and Acquire                                                 *)
(* ---------------------------------------------------------------------- *)
\* A command method is called on a running modem:
\* Acquire -> createToken -> m.tokens <- token, which blocks until
\* dispatchLoop receives.  Callers are numbered in the order they call.
CallAcquire(c, k) ==
    /\ Running
    /\ spc = "running"
    /\ pc[c] = "idle"
    /\ \A d \in Callers : d < c => pc[d] # "idle"
    /\ cmd' = [cmd EXCEPT ![c] = k]
    /\ pc' = [pc EXCEPT ![c] = "send"]
    /\ sendq' = Append(sendq, c)
    /\ enqOrder' = Append(enqOrder, c)
    /\ UNCHANGED <<webVars, lifecycle, aborted, ctxDone, result, acquired, closes, recv, written,
                   expired, ready, closed, readyOrder, dispVars, modemVars, readVars>>

\* close(m.tokens) wakes every blocked sender with a panic.
SendPanic(c) ==
    /\ Running
    /\ pc[c] = "send"
    /\ tokensClosed
    /\ pc' = [pc EXCEPT ![c] = "panic"]
    /\ sendq' = RemoveSender(sendq, c)
    /\ aborted' = "send"
    /\ UNCHANGED <<webVars, lifecycle, cmd, ctxDone, result, acquired, closes, recv, written,
                   expired, ready, closed, enqOrder, readyOrder, dispVars, modemVars,
                   readVars>>

\* The caller's context is cancelled or its deadline elapses.
CtxDone(c) ==
    /\ Running
    /\ pc[c] \notin {"idle", "done", "panic"}
    /\ ~ctxDone[c]
    /\ ctxDone' = [ctxDone EXCEPT ![c] = TRUE]
    /\ expired' = [expired EXCEPT ![c] =
                      pc[c] = "send" /\ \E h \in Callers \ {c} : acquired[h] /\ ~closed[h]]
    /\ UNCHANGED <<webVars, lifecycle, aborted, pc, cmd, result, acquired, closes, recv, written,
                   tokenVars, dispVars, modemVars, readVars>>

\* select: case <-token.ready: return token, nil
AcquireReady(c) ==
    /\ Running
    /\ pc[c] = "select"
    /\ ready[c]
    /\ acquired' = [acquired EXCEPT ![c] = TRUE]
    /\ pc' = [pc EXCEPT ![c] = "w1"]
    /\ UNCHANGED <<webVars, lifecycle, aborted, cmd, ctxDone, result, closes, recv, written,
                   expired, tokenVars, dispVars, modemVars, readVars>>

\* select: case <-ctx.Done(): token.Close(); return nil, ctx.Err()
AcquireExpired(c) ==
    /\ Running
    /\ pc[c] = "select"
    /\ ctxDone[c]
    /\ closed' = [closed EXCEPT ![c] = TRUE]
    /\ result' = [result EXCEPT ![c] = "ctxErr"]
    /\ pc' = [pc EXCEPT ![c] = "done"]
    /\ UNCHANGED <<webVars, lifecycle, aborted, cmd, ctxDone, acquired, closes, recv, written,
                   expired, sendq, ready, enqOrder, readyOrder, dispVars, modemVars,
                   readVars>>

(* ---------------------------------------------------------------------- *)
(* The command methods                                                     *)
(* ---------------------------------------------------------------------- *)
ReturnTo_noDefer(res) == IF res = "ok" THEN "close" ELSE "done"

\* Every return of a command runs the deferred device.Close() first.
ReturnTo(res) == "close"

\* Where a command goes after its request write: <<label, result>>.
\* GetDeviceInfo overwrites the error of sendExtendedMessage and reads on.
AfterWrite(k, label, failed) ==
    IF ~failed THEN <<IF label = "w1" THEN "r1" ELSE "rNext", "none">>
    ELSE IF k = "GetDeviceInfo" THEN <<"rStd", "none">>
    ELSE <<ReturnTo("err"), "err">>

\* The error UnmarshalResponse reports for a frame of the expected type.
ReadError(f) ==
    CASE f.st = "ack" -> "ok"
      [] f.st = "nak" -> "ErrCommandFailure"
      [] OTHER -> "err"

\* Where a command goes after a read that returned e: <<label, result>>.
AfterRead(k, label, e) ==
    CASE label = "r1" /\ k = "GetDeviceInfo" -> <<"rStd", "none">>
      [] label = "r1" /\ k = "GetDeviceStatus" /\ e = "ok" -> <<"rStd", "none">>
      [] label = "r1" /\ k = "GetAllLinkRecords" /\ e = "ok" -> <<"rRec", "none">>
      [] label = "r1" /\ k = "GetAllLinkRecords" /\ e = "ErrCommandFailure" ->
            <<ReturnTo("ok"), "ok">>
      [] label = "rStd" /\ k = "GetDeviceInfo" /\ e = "ok" -> <<"rExt", "none">>
      [] label = "rRec" /\ e = "ok" -> <<"wNext", "none">>
      [] label = "rNext" /\ e = "ok" -> <<"rRec", "none">>
      [] label = "rNext" /\ e = "ErrCommandFailure" -> <<ReturnTo("ok"), "ok">>
      [] OTHER -> <<ReturnTo(e), e>>

\* The request written at a write label.
RequestAt(k, label) ==
    IF label = "w1" THEN FirstRequest(k) ELSE "GetNextAllLinkRecordRequest"

\* AllLinkRecordList.Less: by group, then by identity.
Less(a, b) == a[1] < b[1] \/ (a[1] = b[1] /\ a[2] < b[2])

RECURSIVE Insert(_, _)
Insert(s, x) ==
    IF s = <<>> THEN <<x>>
    ELSE IF Less(x, Head(s)) THEN <<x>> \o s
    ELSE <<Head(s)>> \o Insert(Tail(s), x)

\* sort.Sort(records)
RECURSIVE Sort(_)
Sort(s) == IF s = <<>> THEN <<>> ELSE Insert(Sort(Tail(s)), Head(s))

\* records = append(records, allLinkRecordResponse.Record), once per record read
RecordsRead(c) ==
    LET fs == SelectSeq(recv[c], LAMBDA f : f.k = "AllLinkRecord")
    IN  [i \in 1..Len(fs) |-> fs[i].rec]

GetAllLinkRecordsResult_unsorted(c) ==
    IF result[c] = "ok" THEN RecordsRead(c) ELSE <<>>

\* What GetAllLinkRecords returns beside its error: nil on an error, the
\* records read, sorted, otherwise.
GetAllLinkRecordsResult(c) ==
    IF result[c] = "ok" THEN Sort(RecordsRead(c)) ELSE <<>>

GetDeviceStatusAck_fromDevice(c) ==
    IF recv[c][2].to = c THEN recv[c][2] ELSE NoFrame

\* The frame GetDeviceStatus takes the level from: the one its read of a
\* StandardMessageReceivedResponse returned, whoever sent it:
\* return byteToOnLevel(ack.CommandBytes[1]), err
GetDeviceStatusAck(c) == recv[c][2]

\* MarshalRequest(device, ...): the token's Writer is the transport itself.
\* The write fails on a closed transport and may fail on a broken link;
\* otherwise the request reaches the modem, which replies as it chooses.
Write(c, failed, o, key) ==
    /\ Running
    /\ pc[c] \in WriteLabels
    /\ devClosed => failed
    /\ LET k == cmd[c]
           req == RequestAt(k, pc[c])
           nxt == AfterWrite(k, pc[c], failed)
           reply == ModemReply(c, k, req, o, key)
       IN  /\ pc' = [pc EXCEPT ![c] = nxt[1]]
           /\ result' = [result EXCEPT ![c] = nxt[2]]
           /\ IF failed
              THEN /\ o = "silent"
                   /\ key = NoKey
                   /\ UNCHANGED <<written, modemVars>>
              ELSE /\ o \in ModemOutcomes(c, k, req)
                   /\ key \in ModemKeys(req, o)
                   /\ written' = [written EXCEPT ![c] = Append(@, req)]
                   /\ wire' = wire \o reply
                   /\ nsent' = nsent + Len(reply)
                   /\ nrec' = [nrec EXCEPT ![c] =
                                 @ + Len(SelectSeq(reply, LAMBDA f : f.k = "AllLinkRecord"))]
                   /\ UNCHANGED <<broken, nunsol>>
    /\ UNCHANGED <<webVars, lifecycle, aborted, cmd, ctxDone, acquired, closes, recv, expired,
                   tokenVars, dispVars, readVars>>

\* defer device.Close()
DeferClose(c) ==
    /\ Running
    /\ pc[c] = "close"
    /\ closed' = [closed EXCEPT ![c] = TRUE]
    /\ closes' = [closes EXCEPT ![c] = @ + 1]
    /\ pc' = [pc EXCEPT ![c] = "done"]
    /\ UNCHANGED <<webVars, lifecycle, aborted, cmd, ctxDone, result, acquired, recv, written,
                   expired, sendq, ready, enqOrder, readyOrder, dispVars, modemVars,
                   readVars>>

(* ---------------------------------------------------------------------- *)
(* readLoop and the tee into the ConnectedPipe                             *)
(* ---------------------------------------------------------------------- *)
\* ConnectedPipe.Write passes nothing on when no writer is connected, or when
\* the connected token or the ConnectedPipe is closed.
GateShut == IF gate = None THEN TRUE ELSE (closed[gate] \/ pipeClosed)

\* UnmarshalResponse looks for the sync byte and the code of the expected
\* response type, and skips a frame of another type.
Matches(f, k, label) == f.k = Expected(k, label)

\* The frame at the head of the wire as the read loop records it.
Incoming == [Head(wire) EXCEPT !.win = (Active # {})]

\* The TeeReader reads the next frame and ConnectedPipe.Write finds nothing
\* connected, or a closed token or a closed pipe behind the gate: the frame
\* goes to the read loop only.
ReadDrop ==
    /\ Running
    /\ rpc = "read"
    /\ wire # <<>>
    /\ ~devClosed
    /\ GateShut
    /\ LET f == Incoming
       IN  /\ cur' = f
           /\ readLog' = Append(readLog, f)
           /\ lost' = IF f.to = None THEN lost
                      ELSE IF acquired[f.to] /\ ~closed[f.to] THEN lost \cup {f.n}
                      ELSE lost
    /\ wire' = Tail(wire)
    /\ gate' = IF gate = None THEN None ELSE IF closed[gate] THEN None ELSE gate
    /\ rpc' = "decode"
    /\ UNCHANGED <<webVars, lifecycle, aborted, callerVars, tokenVars, dpc, dtok,
                   broken, nsent, nunsol, nrec, monitorLog>>

\* The TeeReader reads the next frame and ConnectedPipe.Write passes it into
\* the connected token's pipe: the write completes when the holder reads.
\* The holder's UnmarshalResponse skips a frame that is not of the expected
\* type and returns on one that is.
ReadDeliver(c) ==
    /\ Running
    /\ rpc = "read"
    /\ wire # <<>>
    /\ ~devClosed
    /\ gate = c
    /\ ~GateShut
    /\ pc[c] \in ReadLabels
    /\ LET f == Incoming
       IN  /\ cur' = f
           /\ readLog' = Append(readLog, f)
           /\ IF Matches(f, cmd[c], pc[c])
              THEN LET nxt == AfterRead(cmd[c], pc[c], ReadError(f))
                   IN  /\ recv' = [recv EXCEPT ![c] = Append(@, f)]
                       /\ pc' = [pc EXCEPT ![c] = nxt[1]]
                       /\ result' = [result EXCEPT ![c] = nxt[2]]
              ELSE UNCHANGED <<recv, pc, result>>
    /\ wire' = Tail(wire)
    /\ rpc' = "decode"
    /\ UNCHANGED <<webVars, lifecycle, aborted, cmd, ctxDone, acquired, closes, written, expired,
                   tokenVars, dispVars, broken, nsent, nunsol, nrec, monitorLog, lost>>

\* The error UnmarshalResponses returns for a frame: nil for one it skips
\* (no monitor, or not one of the two message-received types).
DecodeError(f) ==
    IF monitor /\ f.k \in MsgReceivedKinds THEN ReadError(f) ELSE "ok"

Delivers_idleOnly(f) ==
    monitor /\ f.k \in MsgReceivedKinds /\ DecodeError(f) = "ok" /\ Active = {}

\* readLoop passes a frame to readFunc iff a monitor was given and
\* UnmarshalResponses matched it against the two message-received types and
\* returned no error.
Delivers(f) == monitor /\ f.k \in MsgReceivedKinds /\ DecodeError(f) = "ok"

Unexpected_any(err) == err # "ok"

\* err != nil && err != ErrCommandFailure
Unexpected(err) == err # "ok" /\ err # "ErrCommandFailure"

\* UnmarshalResponses returns (or skips the frame); an unexpected error goes
\* to panicStop, a frame decoded without error to readFunc(responses[i]).
Decode ==
    /\ Running
    /\ rpc = "decode"
    /\ IF Unexpected(DecodeError(cur))
       THEN /\ rpc' = "err"
            /\ UNCHANGED monitorLog
       ELSE /\ rpc' = "read"
            /\ monitorLog' = IF Delivers(cur) THEN Append(monitorLog, cur) ELSE monitorLog
    /\ cur' = NoFrame
    /\ UNCHANGED <<webVars, lifecycle, aborted, callerVars, tokenVars, dispVars, modemVars,
                   readLog, lost>>

\* UnmarshalResponses returns an error other than ErrCommandFailure: the
\* transport is closed, or it is broken and has nothing left to read.
ReadFail ==
    /\ Running
    /\ rpc = "read"
    /\ broken
    /\ IF devClosed THEN TRUE ELSE wire = <<>>
    /\ rpc' = "err"
    /\ UNCHANGED <<webVars, lifecycle, aborted, callerVars, tokenVars, dispVars, modemVars,
                   cur, readLog, monitorLog, lost>>

AfterPanicStop_exit(a) ==
    IF a # "no" THEN "panic" ELSE IF stopClosed THEN "exited" ELSE "read"

\* Where readLoop goes once panicStop has returned or panicked: the for loop
\* has no condition, no break and no return.
AfterPanicStop(a) == IF a # "no" THEN "panic" ELSE "read"

\* panicStop(stop, err), then the loop goes on
ReadPanicStop ==
    /\ Running
    /\ rpc = "err"
    /\ aborted' = panicStop("readLoop")
    /\ rpc' = AfterPanicStop(aborted')
    /\ UNCHANGED <<webVars, lifecycle, callerVars, tokenVars, dispVars, modemVars,
                   cur, readLog, monitorLog, lost>>

(* ---------------------------------------------------------------------- *)
(* The HTTP facade: WebService                                             *)
(* ---------------------------------------------------------------------- *)
\* Handlers that take {id} from the path and call parseID.
IdHandlers == {"handleGetDeviceState", "handleSetDeviceState", "handleBeep",
               "handleGetDeviceInfo", "handleSetDeviceInfo"}

\* Handlers that take {device} from the path and call parseDevice.
DeviceHandlers == {"handleAPIGetDeviceState", "handleAPISetDeviceState",
                   "handleAPIGetDeviceInfo", "handleAPISetDeviceInfo"}

\* Handlers that call decodeValue on the request body.
BodyHandlers == {"handleSetDeviceState", "handleSetDeviceInfo",
                 "handleAPISetDeviceState", "handleAPISetDeviceInfo"}

\* Handlers that repeat the command on the slave devices.
SlaveHandlers == {"handleAPISetDeviceState", "handleAPISetDeviceInfo"}

Handlers == {"handleGetIMInfo", "handleGetAllLinkDB"} \cup IdHandlers \cup DeviceHandlers

\* The PowerLineModem method a handler calls.
MethodOf(h) ==
    CASE h = "handleGetIMInfo" -> "GetIMInfo"
      [] h = "handleGetAllLinkDB" -> "GetAllLinkDB"
      [] h \in {"handleGetDeviceState", "handleAPIGetDeviceState"} -> "GetDeviceState"
      [] h \in {"handleSetDeviceState", "handleAPISetDeviceState"} -> "SetDeviceState"
      [] h \in {"handleGetDeviceInfo", "handleAPIGetDeviceInfo"} -> "GetDeviceInfo"
      [] h \in {"handleSetDeviceInfo", "handleAPISetDeviceInfo"} -> "SetDeviceInfo"
      [] OTHER -> "Beep"

\* Path variables: empty, one that ParseID or LookupDevice refuses, one it accepts.
Idents == {"", "bad", "good"}

\* Request bodies: none, a JSON document of the expected shape, anything else.
Bodies == {"nil", "json", "garbage"}

\* Values of the request's Content-Type header ("" when it is absent).
ContentTypes == {"", "application/json", "application/json; charset=utf-8",
                 "text/plain", "application/"}

\* mime.ParseMediaType: the media type in lower case without its parameters,
\* and an error for a value with no media type or with a malformed one.
ParseMediaType(v) ==
    CASE v = "" -> [mediatype |-> "", err |-> TRUE]
      [] v = "application/" -> [mediatype |-> "", err |-> TRUE]
      [] v = "application/json; charset=utf-8" ->
            [mediatype |-> "application/json", err |-> FALSE]
      [] OTHER -> [mediatype |-> v, err |-> FALSE]

\* parseID and parseDevice: the status written, NoStatus when the id resolves.
parseID(ident) ==
    IF ident = "" THEN StatusNotFound
    ELSE IF ident = "bad" THEN StatusNotFound
    ELSE NoStatus

\* decodeValue: the status written, NoStatus when the value is decoded.
decodeValue(body, ctype) ==
    LET mt == ParseMediaType(ctype)
    IN  IF body = "nil" THEN StatusBadRequest
        ELSE IF mt.err THEN StatusBadRequest
        ELSE IF mt.mediatype \notin {"", "application/json"} THEN StatusBadRequest
        ELSE IF body # "json" THEN StatusBadRequest
        ELSE NoStatus

\* A request is routed to handler h.
Request(h, ident, body, ctype, ns) ==
    /\ hpc \in {"idle", "done"}
    /\ ident = "" \/ h \in IdHandlers \cup DeviceHandlers
    /\ (body = "nil" /\ ctype = "") \/ h \in BodyHandlers
    /\ ns = 0 \/ h \in SlaveHandlers
    /\ hreq' = [h |-> h, ident |-> ident, body |-> body, ctype |-> ctype, slaves |-> ns]
    /\ hpc' = IF h \in IdHandlers \cup DeviceHandlers THEN "parse" ELSE "call"
    /\ status' = NoStatus
    /\ hctype' = ""
    /\ calls' = <<>>
    /\ UNCHANGED plmVars

AfterReject_fallthrough(h) == "call"

\* Where handler h goes when parseID, parseDevice or decodeValue has written
\* an error status: if id == nil { return }, if !s.decodeValue(...) { return }
AfterReject(h) == "done"

\* id := s.parseID(w, r) or device := s.parseDevice(w, r)
ParseStep ==
    /\ hpc = "parse"
    /\ LET st == parseID(hreq.ident)
       IN  IF st # NoStatus
           THEN /\ status' = st
                /\ hctype' = "text/plain"
                /\ hpc' = AfterReject(hreq.h)
           ELSE /\ hpc' = IF hreq.h \in BodyHandlers THEN "decode" ELSE "call"
                /\ UNCHANGED <<status, hctype>>
    /\ UNCHANGED <<plmVars, hreq, calls>>

\* s.decodeValue(w, r, value)
DecodeStep ==
    /\ hpc = "decode"
    /\ LET st == decodeValue(hreq.body, hreq.ctype)
       IN  IF st # NoStatus
           THEN /\ status' = st
                /\ hctype' = "text/plain"
                /\ hpc' = AfterReject(hreq.h)
           ELSE /\ hpc' = "call"
                /\ UNCHANGED <<status, hctype>>
    /\ UNCHANGED <<plmVars, hreq, calls>>

\* The call into the PowerLineModem for the device itself; an error goes to
\* handleError.  Device 0 is the one the path names, device i its i-th slave.
CallPrimary(ok) ==
    /\ hpc = "call"
    /\ calls' = Append(calls, [op |-> MethodOf(hreq.h), to |-> 0, ok |-> ok])
    /\ IF ~ok
       THEN /\ status' = StatusInternalServerError
            /\ hctype' = "text/plain"
            /\ hpc' = "done"
       ELSE /\ hpc' = IF hreq.h \in SlaveHandlers /\ hreq.slaves > 0
                      THEN "slaves" ELSE "respond"
            /\ UNCHANGED <<status, hctype>>
    /\ UNCHANGED <<plmVars, hreq>>

AfterSlave_stop(i, ns, ok) == IF ok /\ i < ns THEN "slaves" ELSE "respond"

\* for _, id := range device.SlaveDeviceIDs: the result of the call is dropped.
AfterSlave(i, ns, ok) == IF i < ns THEN "slaves" ELSE "respond"

CallSlave(ok) ==
    /\ hpc = "slaves"
    /\ LET i == Len(calls)
       IN  /\ calls' = Append(calls, [op |-> MethodOf(hreq.h), to |-> i, ok |-> ok])
           /\ hpc' = AfterSlave(i, hreq.slaves, ok)
    /\ UNCHANGED <<plmVars, hreq, status, hctype>>

\* s.handleValue(w, r, value).  handleBeep returns without writing anything,
\* and net/http then sends 200 with no Content-Type.
Respond ==
    /\ hpc = "respond"
    /\ status' = StatusOK
    /\ hctype' = IF hreq.h = "handleBeep" THEN "" ELSE "application/json"
    /\ hpc' = "done"
    /\ UNCHANGED <<plmVars, hreq, calls>>

NextWeb ==
    \/ \E h \in Handlers, ident \in Idents, body \in Bodies, ctype \in ContentTypes,
          ns \in 0..MaxSlaves : Request(h, ident, body, ctype, ns)
    \/ ParseStep
    \/ DecodeStep
    \/ \E ok \in BOOLEAN : CallPrimary(ok)
    \/ \E ok \in BOOLEAN : CallSlave(ok)
    \/ Respond

SpecWeb == Init /\ [][NextWeb]_vars

Dispatcher ==
    \/ DispatchReceive
    \/ DispatchReady
    \/ DispatchConnect
    \/ DispatchConnectReturn

ReadLoop ==
    \/ ReadDrop
    \/ \E c \in Callers : ReadDeliver(c)
    \/ Decode

Acquiring ==
    \/ \E c \in Callers : CtxDone(c)
    \/ \E c \in Callers : AcquireReady(c)
    \/ \E c \in Callers : AcquireExpired(c)
    \/ \E c \in Callers : DeferClose(c)

\* Callers that run while the modem is stopped or its transport fails.
LifeCallers == {1, 2}

\* A started modem serving every caller; each runs GetInfo.
Next ==
    \/ \E mon \in BOOLEAN : Start(mon)
    \/ \E kind \in MsgReceivedKinds, i \in 0..Len(wire) : ModemUnsolicited(kind, "ack", i)
    \/ Dispatcher
    \/ \E c \in Callers : CallAcquire(c, "GetInfo")
    \/ Acquiring
    \/ \E c \in Callers, o \in {"ack", "nak", "bad", "silent"} : Write(c, FALSE, o, NoKey)
    \/ ReadLoop

Spec == Init /\ [][Next]_vars

\* The goroutines are scheduled fairly; the modem, the callers' contexts and
\* the arrival of new calls are not.
Fairness ==
    /\ WF_vars(Dispatcher)
    /\ WF_vars(ReadLoop)
    /\ \A c \in Callers :
          /\ WF_vars(AcquireReady(c) \/ AcquireExpired(c))
          /\ WF_vars(DeferClose(c))
          /\ WF_vars(\E o \in {"ack", "nak", "bad", "silent"} : Write(c, FALSE, o, NoKey))

FairSpec == Spec /\ Fairness

\* The whole life of a modem, Stop, Close and a failing transport included;
\* each caller runs GetInfo.  Unsolicited frames are standard messages that
\* come behind the frames already sent, and may decode to a command-failure.
NextLife ==
    \/ \E mon \in BOOLEAN : Start(mon)
    \/ StopCloseStop
    \/ StopCloseTokens
    \/ StopClosePipe
    \/ CloseTransport
    \/ \E st \in {"ack", "nak"} :
          ModemUnsolicited("StandardMessageReceived", st, Len(wire))
    \/ TransportFail
    \/ Dispatcher
    \/ DispatchExit
    \/ \E c \in LifeCallers : CallAcquire(c, "GetInfo")
    \/ \E c \in LifeCallers : SendPanic(c)
    \/ Acquiring
    \/ \E c \in LifeCallers, o \in {"ack", "nak", "bad", "silent"} : Write(c, devClosed, o, NoKey)
    \/ ReadLoop
    \/ ReadFail
    \/ ReadPanicStop

SpecLife == Init /\ [][NextLife]_vars

\* A started modem that is not stopped, with one caller running any command.
NextCmd ==
    \/ \E mon \in BOOLEAN : Start(mon)
    \/ \E kind \in MsgReceivedKinds, i \in 0..Len(wire) : ModemUnsolicited(kind, "ack", i)
    \/ Dispatcher
    \/ \E k \in Commands : CallAcquire(1, k)
    \/ Acquiring
    \/ \E failed \in BOOLEAN,
          o \in {"ack", "ackNoStd", "nak", "bad", "silent"},
          key \in RecordKeys \cup {NoKey} : Write(1, failed, o, key)
    \/ ReadLoop

SpecCmd == Init /\ [][NextCmd]_vars

(* ---------------------------------------------------------------------- *)
(* Properties                                                              *)
(* ---------------------------------------------------------------------- *)
\* The callers between a successful Acquire and the Close of their token.
Holders == {c \in Callers : acquired[c] /\ ~closed[c]}

\* C1: at most one token is active at a time.  No two tokens are signalled
\* ready and still open together, at most one caller is between its
\* successful Acquire and its Close, and a caller that is about to write to
\* the transport owns the one active token.
C1_AtMostOneActive ==
    /\ Cardinality(Active) <= 1
    /\ Cardinality(Holders) <= 1
    /\ \A c \in Callers : pc[c] \in WriteLabels => Active = {c}

\* C1 witness: a second token was signalled ready after the first was
\* closed, and its owner is about to write.
C1_Witness ==
    \E c, d \in Callers :
        /\ c # d
        /\ ready[c] /\ closed[c] /\ acquired[c]
        /\ ready[d] /\ ~closed[d] /\ pc[d] \in WriteLabels

\* C2: tokens are signalled ready in the order in which their Acquire calls
\* entered the queue.
C2_TokenFIFO ==
    /\ Len(readyOrder) <= Len(enqOrder)
    /\ \A i \in 1..Len(readyOrder) : readyOrder[i] = enqOrder[i]

\* C2 witness: two callers were blocked in the queue together, and the token
\* of the earlier one is ready while the later one still waits.
C2_Witness ==
    /\ Len(enqOrder) >= 2
    /\ ready[enqOrder[1]]
    /\ ~closed[enqOrder[1]]
    /\ pc[enqOrder[2]] = "send"

\* C3: the reads of a conversation return exactly the replies to its own
\* requests, in wire order: no reply that the modem sends while its caller
\* holds the token is lost to the background loop, duplicated or delivered
\* to another conversation.
C3_ConversationSeesItsReplies ==
    /\ lost = {}
    /\ \A c \in Callers :
          \A i \in 1..Len(recv[c]) :
              /\ recv[c][i].to = c
              /\ \A j \in 1..Len(recv[c]) : i < j => recv[c][i].n < recv[c][j].n

Decoded == IF rpc = "decode" THEN SubSeq(readLog, 1, Len(readLog) - 1) ELSE readLog

C5_ExpiredGetsNoToken ==
    \A c \in Callers : expired[c] => (~acquired[c] /\ written[c] = <<>>)

\* C6: a command whose context is done while it waits for a reply frame
\* eventually stops waiting.
C6_ContextGovernsReads ==
    \A c \in Callers : (ctxDone[c] /\ pc[c] \in ReadLabels) ~> (pc[c] \notin ReadLabels)

\* C7: after some caller was cancelled, every other caller that waits in
\* Acquire with a live context eventually has its token become active (or
\* loses its context meanwhile).
C7_CancellationNeverLocks ==
    \A c \in Callers :
        (/\ pc[c] \in {"send", "select"}
         /\ ~ctxDone[c]
         /\ \E d \in Callers \ {c} : ctxDone[d])
        ~> (ready[c] \/ ctxDone[c])

\* C8: a token that Acquire returned is closed exactly once by the command,
\* on every path; a command whose Acquire failed closes nothing.
C8_ClosedExactlyOnce ==
    \A c \in Callers :
        /\ closes[c] <= 1
        /\ closes[c] = 1 => acquired[c]
        /\ pc[c] = "done" => closes[c] = (IF acquired[c] THEN 1 ELSE 0)
        /\ (pc[c] = "done" /\ acquired[c]) => closed[c]

\* C8 witness: a command that read several frames has returned an error and
\* closed its token once.
C8_Witness ==
    \E c \in Callers :
        /\ pc[c] = "done"
        /\ acquired[c]
        /\ cmd[c] = "GetAllLinkRecords"
        /\ result[c] \in {"err", "ErrCommandFailure"}
        /\ closes[c] = 1

\* C9: once Stop has been called, no caller panics and no token that was
\* still pending becomes active.
C9_StopDrainsPending ==
    [][/\ \A c \in Callers : pc'[c] # "panic"
       /\ stopClosed => \A c \in Callers : ready'[c] => ready[c]]_vars

\* C10 as stated: a decoder error in the read loop is reported as an error
\* value and never aborts the process.
C10_FailureIsAnErrorValue ==
    aborted # "readLoop"

\* C10 amended: when the read loop's decoder has returned an error other than
\* command-failure and the stop channel is not closed as panicStop runs, the
\* read loop panics and the process is aborted; nothing runs afterwards, so no
\* command returns and no holder's read reports an error.
C10_FailureAborts ==
    [][/\ (rpc = "err" /\ rpc' # "err" /\ ~stopClosed) => aborted' = "readLoop"
       /\ aborted # "no" => vars' = vars]_vars

\* C10 witness: the process was aborted by the read loop while a caller held a
\* token and waited for its reply.
C10_Witness ==
    /\ aborted = "readLoop"
    /\ \E c \in Callers : acquired[c] /\ pc[c] \in ReadLabels

(* ---------------------------------------------------------------------- *)
(* C11: the all-link enumeration                                          *)
(* ---------------------------------------------------------------------- *)
Count(s, x) == Len(SelectSeq(s, LAMBDA y : y = x))

Finished(c) == pc[c] \in {"close", "done"} /\ acquired[c]

\* C11: GetAllLinkRecords writes one GetFirst request and then only GetNext
\* requests, one after each record it has read; its reads alternate between
\* a First/Next response and one record; a refused GetFirst ends it with no
\* error, no record and nothing more sent; it returns without error only
\* after a refused request, and then returns exactly the records read, one
\* per acknowledged request, in ascending (group, identity) order.
C11_Enumeration ==
    \A c \in Callers :
        cmd[c] = "GetAllLinkRecords" =>
            LET w == written[c]
                r == recv[c]
                recs == RecordsRead(c)
                out == GetAllLinkRecordsResult(c)
                acks == SelectSeq(r, LAMBDA f : f.k # "AllLinkRecord" /\ f.st = "ack")
            IN  /\ \A i \in 1..Len(w) :
                       w[i] = IF i = 1 THEN "GetFirstAllLinkRecordRequest"
                              ELSE "GetNextAllLinkRecordRequest"
                /\ \A i \in 1..Len(r) :
                       r[i].k = IF i = 1 THEN "GetFirstAllLinkRecordResponse"
                                ELSE IF i % 2 = 0 THEN "AllLinkRecord"
                                ELSE "GetNextAllLinkRecordResponse"
                /\ Len(recs) <= Len(w) /\ Len(w) <= Len(recs) + 1
                /\ pc[c] = "wNext" => Len(w) = Len(recs) /\ Len(recs) = Len(acks)
                /\ (r # <<>> /\ r[1].st = "nak") =>
                       /\ Finished(c) /\ result[c] = "ok"
                       /\ out = <<>> /\ Len(w) = 1 /\ Len(r) = 1
                /\ (Finished(c) /\ result[c] = "ok") =>
                       /\ r # <<>> /\ r[Len(r)].st = "nak"
                       /\ r[Len(r)].k # "AllLinkRecord"
                       /\ Len(w) = Len(recs) + 1
                       /\ Len(recs) = Len(acks)
                       /\ Len(out) = Len(recs)
                       /\ \A x \in RecordKeys : Count(out, x) = Count(recs, x)
                       /\ \A i \in 1..(Len(out) - 1) : ~Less(out[i + 1], out[i])

\* An enumeration that read two records in descending order and returned.
C11_Witness ==
    /\ cmd[1] = "GetAllLinkRecords" /\ pc[1] = "done" /\ result[1] = "ok"
    /\ RecordsRead(1) = << <<2, 1>>, <<1, 2>> >>
    /\ GetAllLinkRecordsResult(1) = << <<1, 2>>, <<2, 1>> >>

(* ---------------------------------------------------------------------- *)
(* C12: one write and the specified reads                                 *)
(* ---------------------------------------------------------------------- *)
Kinds(fs) == [i \in 1..Len(fs) |-> fs[i].k]

IsPrefix(s, t) == Len(s) <= Len(t) /\ s = SubSeq(t, 1, Len(s))

\* The reply reads each single-request command is specified to make.
C12_Replies(k) ==
    CASE k = "GetInfo" -> <<"GetIMInfoResponse">>
      [] k = "GetDeviceStatus" -> <<"SendMsgResponse", "StandardMessageReceived">>
      [] k = "GetDeviceInfo" ->
            <<"SendMsgResponse", "StandardMessageReceived", "ExtendedMessageReceived">>
      [] OTHER -> <<"SendMsgResponse">>

\* The run of caller c in which no step failed: its request was written and
\* every reply it read was an acknowledged one.
FullySuccessful(c) ==
    /\ Finished(c) /\ result[c] = "ok"
    /\ written[c] # <<>>
    /\ \A i \in 1..Len(recv[c]) : recv[c][i].st = "ack"

\* C12: a command other than the enumeration never writes more than one
\* request and, once its request is written, reads its replies in the
\* specified order and no others; on a fully successful run it has written exactly its one request and read
\* exactly its specified replies, each once.
C12_OneWriteThenReplies ==
    \A c \in Callers :
        (cmd[c] \in Commands \ {"GetAllLinkRecords"}) =>
            /\ Len(written[c]) <= 1
            /\ \A i \in 1..Len(written[c]) : written[c][i] = FirstRequest(cmd[c])
            /\ written[c] # <<>> => IsPrefix(Kinds(recv[c]), C12_Replies(cmd[c]))
            /\ FullySuccessful(c) =>
                   /\ Len(written[c]) = 1
                   /\ Kinds(recv[c]) = C12_Replies(cmd[c])

\* A GetDeviceInfo that succeeded after its three reads.
C12_Witness ==
    /\ cmd[1] = "GetDeviceInfo" /\ FullySuccessful(1) /\ pc[1] = "done"
    /\ Len(recv[1]) = 3

(* ---------------------------------------------------------------------- *)
(* C13: the alias routes and the slave devices                            *)
(* ---------------------------------------------------------------------- *)
\* C13: a PUT on an alias route calls the modem for the primary device
\* first and then for each slave in declaration order; a failing primary
\* call gives 500 and no slave call; after a successful primary call every
\* slave is called whatever the earlier slave calls returned, and the
\* response is 200.
C13_PrimaryThenSlaves ==
    hreq.h \in SlaveHandlers =>
        /\ \A i \in 1..Len(calls) :
               calls[i].to = i - 1 /\ calls[i].op = MethodOf(hreq.h)
        /\ Len(calls) <= 1 + hreq.slaves
        /\ (calls # <<>> /\ ~calls[1].ok) =>
               /\ Len(calls) = 1
               /\ hpc = "done"
               /\ status = StatusInternalServerError
        /\ (calls # <<>> /\ calls[1].ok /\ hpc = "done") =>
               /\ Len(calls) = 1 + hreq.slaves
               /\ status = StatusOK
        /\ (calls # <<>> /\ calls[1].ok /\ hpc # "done") => status = NoStatus

\* A request answered 200 whose first slave failed and whose second slave
\* was called all the same.
C13_Witness ==
    /\ hreq.h = "handleAPISetDeviceState" /\ hreq.slaves = 2
    /\ hpc = "done" /\ status = StatusOK
    /\ Len(calls) = 3 /\ calls[1].ok /\ ~calls[2].ok

(* ---------------------------------------------------------------------- *)
(* C14, C15: the status of a response                                     *)
(* ---------------------------------------------------------------------- *)
\* The media types a JSON body may be declared with; none counts as JSON.
JSONDeclared(ctype) ==
    ctype \in {"", "application/json", "application/json; charset=utf-8"}

\* The status the first failing step of a request calls for.
FirstFailure(r, cs) ==
    IF r.h \in IdHandlers \cup DeviceHandlers /\ r.ident # "good" THEN StatusNotFound
    ELSE IF r.h \in BodyHandlers /\ (r.body # "json" \/ ~JSONDeclared(r.ctype))
         THEN StatusBadRequest
    ELSE IF cs # <<>> /\ ~cs[1].ok THEN StatusInternalServerError
    ELSE StatusOK

\* C14: a finished request has the one status its first failing step calls
\* for (404 for the id or alias, then 400 for the body, then 500 for the
\* modem), a rejected one has made no modem call, and a request with no
\* failing step is answered 200 with Content-Type application/json.
C14_StatusOfFirstFailure ==
    hpc = "done" =>
        /\ status = FirstFailure(hreq, calls)
        /\ status \in {StatusNotFound, StatusBadRequest} => calls = <<>>
        /\ status = StatusOK => hctype = "application/json"

\* C15: a PUT with a resolvable id, a valid JSON body and no Content-Type
\* is not rejected with 400 and reaches the modem command.
C15_MissingContentTypeIsJSON ==
    (/\ hpc = "done"
     /\ hreq.h \in BodyHandlers
     /\ hreq.ident = "good"
     /\ hreq.body = "json"
     /\ hreq.ctype = "") =>
        /\ status # StatusBadRequest
        /\ calls # <<>>

(* ---------------------------------------------------------------------- *)
(* C16: the order of the dispatcher's steps                               *)
(* ---------------------------------------------------------------------- *)
\* C16: a token is signalled ready, and returned by Acquire, only once the
\* gate is connected to its reader: while a token is ready and not closed
\* the gate is connected to it.
C16_ConnectedBeforeReady ==
    \A c \in Callers :
        (ready[c] /\ ~closed[c]) => gate = c

(* ---------------------------------------------------------------------- *)
(* C17: the first error ends the command                                  *)
(* ---------------------------------------------------------------------- *)
\* The first request write of caller c failed.
FirstWriteFailed(c) ==
    /\ acquired[c]
    /\ pc[c] \notin {"w1"}
    /\ written[c] = <<>>

\* A refused First or Next request ends the enumeration; it is no error.
EndsEnumeration(c, f) ==
    /\ cmd[c] = "GetAllLinkRecords"
    /\ f.st = "nak"
    /\ f.k \in {"GetFirstAllLinkRecordResponse", "GetNextAllLinkRecordResponse"}

\* C17: once the request write or a reply read of a command has failed (a
\* command-failure reply to the send step included), the command makes no
\* further read or write, and it returns that error.
C17_FirstErrorEndsCommand ==
    \A c \in Callers :
        /\ FirstWriteFailed(c) =>
               /\ recv[c] = <<>>
               /\ pc[c] \in {"close", "done"}
               /\ result[c] = "err"
        /\ \A i \in 1..Len(recv[c]) :
               (recv[c][i].st # "ack" /\ ~EndsEnumeration(c, recv[c][i])) =>
                   /\ i = Len(recv[c])
                   /\ pc[c] \in {"close", "done"}
                   /\ result[c] = ReadError(recv[c][i])
                   /\ Len(written[c]) <= (i + 1) \div 2

(* ---------------------------------------------------------------------- *)
(* C18: the background tasks and the conditions they expect               *)
(* ---------------------------------------------------------------------- *)
\* C18: the read loop goes back to reading after a frame that decodes to a
\* command-failure, without passing it to the monitor; the dispatcher takes
\* the next token after Connect returned closed-pipe; neither task aborts
\* the process once the stop channel is closed, and the read loop reads on
\* after an error it observes then; the stop channel is closed before the
\* token queue, the gate and the transport are.
C18_ExpectedConditionsSwallowed ==
    [][/\ (rpc = "decode" /\ rpc' # rpc /\ cur.st \in {"ack", "nak"}) =>
              /\ rpc' = "read"
              /\ aborted' = aborted
              /\ cur.st = "nak" => monitorLog' = monitorLog
       /\ (dpc = "connected" /\ dpc' # dpc) =>
              /\ dpc' = "range"
              /\ aborted' = aborted
       /\ (stopClosed /\ aborted = "no") =>
              aborted' \notin {"readLoop", "dispatchLoop"}
       /\ (stopClosed /\ rpc = "err" /\ rpc' # rpc) => rpc' = "read"
       /\ (tokensClosed' \/ pipeClosed' \/ devClosed') => stopClosed']_vars

\* The read loop has decoded a command-failure frame with a monitor
\* installed and is still running, and it has observed a read error after
\* Stop closed the stop channel.
C18_Witness ==
    /\ Running
    /\ monitor
    /\ \E i \in 1..Len(Decoded) :
           Decoded[i].k \in MsgReceivedKinds /\ Decoded[i].st = "nak"
    /\ stopClosed
    /\ rpc = "err"

(* ---------------------------------------------------------------------- *)
(* C19: GetDeviceInfo and a missing standard-message ack                  *)
(* ---------------------------------------------------------------------- *)
\* The read loop has passed to holder c the extended frame f that the modem
\* sent right after the SendMsgResponse c has read.
ExtendedRightAfterAck(c, f) ==
    /\ cmd[c] = "GetDeviceInfo"
    /\ recv[c] # <<>>
    /\ recv[c][1].k = "SendMsgResponse" /\ recv[c][1].st = "ack"
    /\ f.k = "ExtendedMessageReceived" /\ f.to = c
    /\ f.n = recv[c][1].n + 1
    /\ f.n \notin lost

\* C19: when the modem answers GetDeviceInfo with the SendMsgResponse and
\* then directly the extended frame, GetDeviceInfo returns without error on
\* reading that extended frame.
C19_ToleratesMissingAck ==
    \A c \in Callers :
        \A i \in 1..Len(readLog) :
            ExtendedRightAfterAck(c, readLog[i]) =>
                /\ Finished(c)
                /\ result[c] = "ok"
                /\ recv[c][Len(recv[c])].n = readLog[i].n

(* ---------------------------------------------------------------------- *)
(* C20: GetDeviceStatus and the sender of the frame it reads               *)
(* ---------------------------------------------------------------------- *)
\* Position in the read loop's log of the frame numbered n.
LogIndex(n) == CHOOSE i \in 1..Len(readLog) : readLog[i].n = n

\* C20: the level a successful GetDeviceStatus returns is taken from the
\* first standard message-received frame read after its SendMsgResponse,
\* whether the queried device or another one sent it.
C20_FirstStandardFrameIsTheLevel ==
    \A c \in Callers :
        (cmd[c] = "GetDeviceStatus" /\ Finished(c) /\ result[c] = "ok") =>
            LET a == LogIndex(recv[c][1].n)
                after == {j \in (a + 1)..Len(readLog) :
                             readLog[j].k = "StandardMessageReceived"}
            IN  /\ Len(recv[c]) = 2
                /\ after # {}
                /\ \A j \in after : GetDeviceStatusAck(c).n = readLog[j].n
                                     \/ \E l \in after : l < j

\* GetDeviceStatus returned the level of an unsolicited frame while the
\* queried device's own reply came behind it.
C20_Witness ==
    /\ cmd[1] = "GetDeviceStatus" /\ Finished(1) /\ result[1] = "ok"
    /\ GetDeviceStatusAck(1).to = None
    /\ \E i \in 1..Len(wire) :
           wire[i].to = 1 /\ wire[i].k = "StandardMessageReceived"

(* ---------------------------------------------------------------------- *)
(* C21: the read loop outlives Stop and Close                             *)
(* ---------------------------------------------------------------------- *)
\* The positions of the read loop inside its for loop.
LoopPositions == {"read", "decode", "err"}

\* C21: as long as the process has not been aborted, the read loop of a
\* started modem is inside its loop, after Stop and after Close as well; an
\* error it observes once the stop channel is closed sends it back to the
\* decoder; and each statement of Stop and Close runs whatever the read
\* loop and the dispatcher are doing.
C21_ReadLoopNeverExits ==
    /\ (started /\ Running) => rpc \in LoopPositions
    /\ (Running /\ stopClosed /\ rpc = "err") =>
           /\ ENABLED ReadPanicStop
           /\ AfterPanicStop(panicStop("readLoop")) = "read"
    /\ (Running /\ devClosed /\ rpc = "read") => ENABLED ReadFail
    /\ (Running /\ spc = "running") => ENABLED StopCloseStop
    /\ (Running /\ spc = "stop1") => ENABLED StopCloseTokens
    /\ (Running /\ spc = "stop2") => ENABLED StopClosePipe
    /\ (Running /\ spc = "stopped") => ENABLED CloseTransport

\* Close has returned; the dispatcher has not left its loop yet and the read
\* loop has come back to the decoder after an error on the closed transport.
C21_Witness ==
    /\ Running
    /\ spc = "closed"
    /\ dpc \notin {"exited", "off"}
    /\ rpc = "err"

(* ---------------------------------------------------------------------- *)
(* C22: a rejected request does not reach the modem                       *)
(* ---------------------------------------------------------------------- *)
\* C22: a handler calls into the PowerLineModem only after the id or alias
\* of the request has resolved and, for a handler that takes a body, the
\* body has been decoded; when a request is answered 400 or 404 no modem
\* call has been made for it, its handler has returned, and the modem and
\* its token queue are as they were.
C22_RejectedRequestIssuesNoCommand ==
    [][/\ calls' # <<>> =>
              /\ hreq'.h \in IdHandlers \cup DeviceHandlers => hreq'.ident = "good"
              /\ hreq'.h \in BodyHandlers => hreq'.body = "json"
       /\ status' \in {StatusBadRequest, StatusNotFound} =>
              /\ calls' = <<>>
              /\ hpc' = "done"
              /\ plmVars' = plmVars]_vars

\* A PUT on an alias route with slaves was answered 400 for its body.
C22_Witness ==
    /\ hpc = "done"
    /\ hreq.h = "handleAPISetDeviceState" /\ hreq.slaves = 2
    /\ hreq.ident = "good" /\ hreq.body = "garbage"
    /\ status = StatusBadRequest
    /\ calls = <<>>

====
